---- MODULE Spec2Model ----
(***************************************************************************)
(* Model of dumps2extxyz.py: process_dump_file scanning one LAMMPS dump    *)
(* file frame by frame, skipping the frames whose timestep is not wanted   *)
(* and rendering the wanted ones as extended-XYZ blocks.                   *)
(*                                                                         *)
(* A text line is the sequence of its whitespace-separated tokens (what    *)
(* str.split() returns); the empty sequence is what readline() returns at  *)
(* end of file (the modelled files hold no blank lines).  A token is a     *)
(* word, an integer literal or a decimal literal.  Real values are counted *)
(* in halves (n stands for n/2), a range in which float addition and       *)
(* subtraction are exact.                                                  *)
(***************************************************************************)
EXTENDS Integers, Sequences, FiniteSets, TLC

VARIABLES
    dump_file,      \* argument: the path of the dump file, as os.walk gives it
    frames,         \* the frames written into the dump file, in file order
    cut,            \* number of lines of the dump file (it may end mid-frame)
    stride,         \* TIMESTEP_INTERVAL in force
    max_timestep,   \* MAX_TIMESTEP in force
    pos,            \* number of lines of the file consumed so far
    pc,             \* control point of process_dump_file
    timestep,       \* local: timestep of the frame at hand
    num_atoms,      \* local: atom count read for the frame at hand
    lx, ly, lz,     \* locals: box edge lengths
    atoms_data,     \* local: atoms parsed so far in the frame at hand
    total_energy,   \* local: energy accumulated so far in the frame at hand
    results,        \* local: blocks of the frames selected so far
    dump_files,     \* main: what process_dump_file yields for each file found
    task,           \* pool: state of the task of each file
    map_success,    \* pool.map: no task has failed so far
    map_value,      \* pool.map: the result list being filled, one slot per file
    mpc,            \* control point of main
    outfile,        \* the blocks written to OUTPUT_FILE
    total_frames,   \* main: number of blocks written
    next_frames,    \* worker: the files it is still to be called on
    finished        \* worker: how its earlier calls ended

\* The state of main and of its pool.
batch == <<dump_files, task, map_success, map_value, mpc, outfile, total_frames>>

\* The calls around the one at hand.
calls == <<next_frames, finished>>

vars == <<dump_file, frames, cut, stride, max_timestep, pos, pc, timestep, num_atoms,
          lx, ly, lz, atoms_data, total_energy, results, batch, calls>>

\* What process_dump_file never writes.
input == <<dump_file, frames, cut, stride, max_timestep, batch, calls>>

----------------------------------------------------------------------------
(* Bounds of the model and program constants *)

MaxFrames == 2
MaxAtoms == 2
MaxStride == 3
MaxBound == 3
MaxFiles == 3
MaxBlocks == 2
MaxWorkers == 2

MAX_TIMESTEP == 100000
TIMESTEP_INTERVAL == 100

Min(a, b) == IF a < b THEN a ELSE b
Max(a, b) == IF a > b THEN a ELSE b

----------------------------------------------------------------------------
(* Tokens and lines *)

Word(s) == [k |-> "word", n |-> 0, s |-> s]
IntLit(n) == [k |-> "int", n |-> n, s |-> ""]
RealLit(h) == [k |-> "real", n |-> h, s |-> ""]
Fixed8(h) == [k |-> "f8", n |-> h, s |-> ""]

Words(ss) == [j \in 1..Len(ss) |-> Word(ss[j])]

TimestepMarker == Words(<<"ITEM:", "TIMESTEP">>)
NumberMarker == Words(<<"ITEM:", "NUMBER", "OF", "ATOMS">>)
BoundsMarker == Words(<<"ITEM:", "BOX", "BOUNDS", "pp", "pp", "pp">>)
AtomsMarker ==
    Words(<<"ITEM:", "ATOMS", "id", "type", "x", "y", "z", "vx", "vy", "vz",
            "fx", "fy", "fz", "atom_energy">>)

\* The atom with a given id: its type token, its energy (in halves) and its line.
TypeOf(id) == 3 * id - 2
EnergyOf(id) == 3 * id - 4
AtomLine(id) ==
    <<IntLit(id), IntLit(TypeOf(id)), RealLit(2 * id), RealLit(1), IntLit(0),
      RealLit(0), RealLit(0), RealLit(0), RealLit(0 - id), IntLit(1), RealLit(3),
      RealLit(EnergyOf(id))>>

\* The lines of one frame: f.n is the declared atom count, f.ids the atoms
\* present.  A frame is 9 header lines and its atom lines.
\* The three bounds lines of a frame: lo and hi per axis.
DefaultBox ==
    <<<<RealLit(0), RealLit(20)>>, <<IntLit(0), IntLit(5)>>, <<RealLit(0 - 1), RealLit(3)>>>>

FrameLen(f) == 9 + Len(f.ids)
FrameLine(f, j) ==
    CASE j = 1 -> TimestepMarker
      [] j = 2 -> <<IntLit(f.ts)>>
      [] j = 3 -> NumberMarker
      [] j = 4 -> <<IntLit(f.n)>>
      [] j = 5 -> BoundsMarker
      [] j = 6 -> f.box[1]
      [] j = 7 -> f.box[2]
      [] j = 8 -> f.box[3]
      [] j = 9 -> AtomsMarker
      [] OTHER -> AtomLine(f.ids[j - 9])

\* The number of lines of a sequence of frames, and its p-th line.
RECURSIVE LineCount(_)
LineCount(fs) == IF fs = <<>> THEN 0 ELSE FrameLen(Head(fs)) + LineCount(Tail(fs))

RECURSIVE LineOf(_, _)
LineOf(fs, p) ==
    IF p <= FrameLen(Head(fs)) THEN FrameLine(Head(fs), p)
    ELSE LineOf(Tail(fs), p - FrameLen(Head(fs)))

----------------------------------------------------------------------------
(* File reading and text conversions *)

\* readline() when p lines are consumed: the next line, or '' at end of file.
Line(p) == IF p < cut THEN LineOf(frames, p + 1) ELSE <<>>
\* Faulty variant of Advance: the last of the k lines is not consumed.
Advance_short(p, k) == Min(p + k - 1, cut)

\* The position after k more readline() calls.
Advance(p, k) == Min(p + k, cut)

\* "ITEM: TIMESTEP" in line
HasTimestepMarker(line) ==
    \E j \in 1..(Len(line) - 1) :
        line[j] = Word("ITEM:") /\ line[j + 1] = Word("TIMESTEP")

\* int(line.strip()) succeeds
IntStripOk(line) == Len(line) = 1 /\ line[1].k = "int"
\* int(line.split()[0]) succeeds
IntFirstOk(line) == Len(line) >= 1 /\ line[1].k = "int"
\* float(token) succeeds, and its value in halves
FloatOk(tok) == tok.k \in {"int", "real"}
FloatOf(tok) == IF tok.k = "int" THEN 2 * tok.n ELSE tok.n
\* a, b = map(float, line.split()) succeeds
PairOk(line) == Len(line) = 2 /\ FloatOk(line[1]) /\ FloatOk(line[2])
\* lines 110-114 succeed on parts = line.split()
AtomOk(parts) ==
    /\ Len(parts) >= 12
    /\ \A j \in {3, 4, 5, 9, 10, 11, 12} : FloatOk(parts[j])

\* Faulty variant of ATOM_TYPE_MAP: a missing key falls back on the raw token.
ATOM_TYPE_MAP_raw(tok) ==
    IF tok.k = "int" /\ tok.n = 1 THEN "C"
    ELSE IF tok.k = "int" /\ tok.n = 2 THEN "Si"
    ELSE IF tok.k = "int" /\ tok.n = 3 THEN "O"
    ELSE ToString(tok.n)

\* Lines 47-52 and 111: ATOM_TYPE_MAP.get(atom_type, "X")
ATOM_TYPE_MAP(tok) ==
    IF tok.k = "int" /\ tok.n = 1 THEN "C"
    ELSE IF tok.k = "int" /\ tok.n = 2 THEN "Si"
    ELSE IF tok.k = "int" /\ tok.n = 3 THEN "O"
    ELSE "X"

\* range(start, stop, step) as a set, step > 0
Range(start, stop, step) ==
    {start + j * step : j \in 0..((stop - start - 1) \div step)}

\* Faulty variants of desired_timesteps: the bound itself left out, and half the interval.
desired_timesteps_exclusive == Range(0, max_timestep, stride)
desired_timesteps_halved == Range(0, max_timestep + 1, Max(1, stride \div 2))

\* Line 65
desired_timesteps == Range(0, max_timestep + 1, stride)

\* The tuple appended to atoms_data for one atom line.
AtomTuple(parts) ==
    <<ATOM_TYPE_MAP(parts[2]), FloatOf(parts[3]), FloatOf(parts[4]),
      FloatOf(parts[5]), FloatOf(parts[9]), FloatOf(parts[10]),
      FloatOf(parts[11])>>

\* Faulty variant of AddEnergy: the field before the energy is summed.
AddEnergy_fz(total, parts) == total + FloatOf(parts[11])

\* Lines 114-115: total_energy += float(parts[11])
AddEnergy(total, parts) == total + FloatOf(parts[12])

\* Faulty variant of AppendAtom: the atom is put in front.
AppendAtom_front(data, parts) == <<AtomTuple(parts)>> \o data

\* Line 116: atoms_data.append(...)
AppendAtom(data, parts) == Append(data, AtomTuple(parts))

\* Faulty variant of AppendBlock: the block is put in front.
AppendBlock_front(res, block) == <<block>> \o res

\* Line 134: results.append(...)
AppendBlock(res, block) == Append(res, block)

\* One rendered atom line of a block.
RenderAtom(a) ==
    <<Word(a[1]), Fixed8(a[2]), Fixed8(a[3]), Fixed8(a[4]), Fixed8(a[5]),
      Fixed8(a[6]), Fixed8(a[7])>>

\* Line 41.  A path is a sequence of segments, a name a sequence of characters.
INPUT_DIR == <<".", "lammps">>

\* os.path.splitext on a file name: the extension starts at the last dot,
\* unless only dots come before it.
splitext(name) ==
    LET dots == {i \in 1..Len(name) : name[i] = "."}
        last == CHOOSE i \in dots : \A j \in dots : j <= i
    IN  IF dots # {} /\ \E j \in 1..(last - 1) : name[j] # "."
        THEN SubSeq(name, 1, last - 1)
        ELSE name

\* os.path.relpath of a directory below start, as text; "." for start itself.
RECURSIVE JoinSlash(_)
JoinSlash(segs) ==
    IF Len(segs) = 0 THEN <<>>
    ELSE IF Len(segs) = 1 THEN <<segs[1]>>
    ELSE <<segs[1], "/">> \o JoinSlash(Tail(segs))

relpath(dir, start) ==
    IF dir = start THEN <<".">>
    ELSE JoinSlash(SubSeq(dir, Len(start) + 1, Len(dir)))

\* str of an integer, digit by digit.
DigitChars == <<"0", "1", "2", "3", "4", "5", "6", "7", "8", "9">>
RECURSIVE Digits(_)
Digits(n) ==
    IF n < 0 THEN <<"-">> \o Digits(0 - n)
    ELSE IF n < 10 THEN <<DigitChars[n + 1]>>
    ELSE Digits(n \div 10) \o <<DigitChars[(n % 10) + 1]>>

\* Faulty variant of CategoryOf: the relative directory is always written.
CategoryOf_dotted(file, ts) ==
    relpath(file.dir, INPUT_DIR) \o <<"/">> \o splitext(file.name) \o <<"-">> \o Digits(ts)

\* Lines 119-121: the category text of a frame of a file.
CategoryOf(file, ts) ==
    LET base_name == splitext(file.name)
        rel_path == relpath(file.dir, INPUT_DIR)
    IN  IF rel_path # <<".">>
        THEN rel_path \o <<"/">> \o base_name \o <<"-">> \o Digits(ts)
        ELSE base_name \o <<"-">> \o Digits(ts)

category == CategoryOf(dump_file, timestep)

\* Faulty variant of Lattice: the edge lengths fill the first row.
Lattice_row(a, b, c) ==
    <<RealLit(a), RealLit(b), RealLit(c), RealLit(0), RealLit(0), RealLit(0),
      RealLit(0), RealLit(0), RealLit(0)>>

\* Line 124: the nine lattice values; the lengths are floats, the zeros "0.0".
Lattice(a, b, c) ==
    <<RealLit(a), RealLit(0), RealLit(0), RealLit(0), RealLit(b), RealLit(0),
      RealLit(0), RealLit(0), RealLit(c)>>

\* The block appended to results for the frame at hand.
frame_content ==
    [count |-> <<IntLit(num_atoms)>>,
     Lattice |-> Lattice(lx, ly, lz),
     category |-> [text |-> category, timestep |-> IntLit(timestep)],
     energy |-> RealLit(total_energy),
     atoms |-> [j \in 1..Len(atoms_data) |-> RenderAtom(atoms_data[j])]]

----------------------------------------------------------------------------
(* Input files *)

Timesteps == {0, 50, 100}

RECURSIVE SeqsUpTo(_, _)
SeqsUpTo(S, n) ==
    IF n = 0 THEN {<<>>}
    ELSE LET shorter == SeqsUpTo(S, n - 1)
         IN  shorter \cup {Append(s, x) : s \in {t \in shorter : Len(t) = n - 1}, x \in S}

\* Atom ids of a frame of n atoms: 1..n in any on-disk order.
IdOrders(n) == {s \in [1..n -> 1..n] : \A i, j \in 1..n : s[i] = s[j] => i = j}

WellFormedFrames(tss) ==
    {[ts |-> t, n |-> Len(ids), ids |-> ids, box |-> DefaultBox] :
        t \in tss, ids \in UNION {IdOrders(n) : n \in 0..MaxAtoms}}

\* Dump files found below INPUT_DIR (line 59: the name ends with .dump).
Extension == <<".", "d", "u", "m", "p">>
Stems == {<<"r">>, <<"r", "-", "7">>, <<"r", ".", "1">>, <<"a">>}
RelDirs == {<<>>, <<"a">>, <<"a", "r">>, <<"b">>}
Paths == {[dir |-> INPUT_DIR \o d, name |-> st \o Extension] : d \in RelDirs, st \in Stems}
DefaultFile == [dir |-> INPUT_DIR, name |-> <<"r">> \o Extension]

Locals ==
    /\ pos = 0
    /\ pc = "seek"
    /\ timestep = 0
    /\ num_atoms = 0
    /\ lx = 0 /\ ly = 0 /\ lz = 0
    /\ atoms_data = <<>>
    /\ total_energy = 0
    /\ results = <<>>

\* main is not running: one call of process_dump_file is looked at alone.
NoBatch ==
    /\ dump_files = <<>>
    /\ task = <<>>
    /\ map_success = TRUE
    /\ map_value = <<>>
    /\ mpc = "idle"
    /\ outfile = <<>>
    /\ total_frames = 0
    /\ next_frames = <<>>
    /\ finished = <<>>

\* Well-formed dump files under the default configuration.
Init ==
    /\ frames \in SeqsUpTo(WellFormedFrames(Timesteps), MaxFrames)
    /\ cut = LineCount(frames)
    /\ stride = TIMESTEP_INTERVAL
    /\ max_timestep = MAX_TIMESTEP
    /\ Locals
    /\ dump_file = DefaultFile
    /\ NoBatch

\* One-frame files under every small configuration and the default one.
PolicyConfigs ==
    ((1..MaxStride) \X ((0 - 1)..MaxBound))
        \cup {<<TIMESTEP_INTERVAL, MAX_TIMESTEP>>}
PolicyTimesteps ==
    ((0 - 1)..(MaxBound + 2))
        \cup {0 - TIMESTEP_INTERVAL, TIMESTEP_INTERVAL \div 2, TIMESTEP_INTERVAL,
               MAX_TIMESTEP, MAX_TIMESTEP + TIMESTEP_INTERVAL}

InitPolicy ==
    /\ \E f \in WellFormedFrames(PolicyTimesteps) : frames = <<f>>
    /\ cut = LineCount(frames)
    /\ \E c \in PolicyConfigs : stride = c[1] /\ max_timestep = c[2]
    /\ Locals
    /\ dump_file = DefaultFile
    /\ NoBatch

\* Damaged files: cut short anywhere, or one frame declaring one atom more or
\* less than it holds.
MalTimesteps == {0, 50}

SortedFrames(tss) ==
    {[ts |-> t, n |-> n, ids |-> [j \in 1..n |-> j], box |-> DefaultBox] :
        t \in tss, n \in 0..MaxAtoms}

Miscounted(fs) ==
    {[fs EXCEPT ![i].n = @ + d] : i \in 1..Len(fs), d \in {0 - 1, 1}}

InitMal ==
    /\ \E fs \in SeqsUpTo(SortedFrames(MalTimesteps), MaxFrames) :
          \/ frames = fs /\ cut \in 0..LineCount(fs)
          \/ /\ frames \in {g \in Miscounted(fs) : \A i \in 1..Len(g) : g[i].n >= 0}
             /\ cut = LineCount(fs)
    /\ stride = TIMESTEP_INTERVAL
    /\ max_timestep = MAX_TIMESTEP
    /\ Locals
    /\ dump_file = DefaultFile
    /\ NoBatch

----------------------------------------------------------------------------
(* process_dump_file *)

\* Lines 69-75: look for the next frame-start marker.
ReadLine ==
    /\ pc = "seek"
    /\ LET line == Line(pos)
       IN  /\ pos' = Advance(pos, 1)
           /\ pc' = IF line = <<>> THEN "returned"
                    ELSE IF HasTimestepMarker(line) THEN "timestep"
                    ELSE "seek"
    /\ UNCHANGED <<input, timestep, num_atoms, lx, ly, lz, atoms_data,
                   total_energy, results>>

\* Lines 77-79: read the timestep and choose the path.
ReadTimestep ==
    /\ pc = "timestep"
    /\ LET line == Line(pos)
       IN  /\ pos' = Advance(pos, 1)
           /\ IF IntStripOk(line)
              THEN /\ timestep' = line[1].n
                   /\ pc' = IF line[1].n \in desired_timesteps
                            THEN "header" ELSE "skip"
              ELSE /\ timestep' = timestep
                   /\ pc' = "raised"
    /\ UNCHANGED <<input, num_atoms, lx, ly, lz, atoms_data, total_energy,
                   results>>

\* Lines 81-87: skip an unwanted frame.
SkipFrame ==
    /\ pc = "skip"
    /\ LET p6 == Advance(pos, 6)
           line == Line(p6)
           p7 == Advance(p6, 1)
           first == Line(p7)
           p8 == Advance(p7, 1)
       IN  IF line = <<>>
           THEN pos' = p7 /\ pc' = "returned" /\ num_atoms' = num_atoms
           ELSE IF IntFirstOk(first)
           THEN /\ num_atoms' = first[1].n
                /\ pos' = Advance(p8, Max(first[1].n, 0))
                /\ pc' = "seek"
           ELSE pos' = p8 /\ pc' = "raised" /\ num_atoms' = num_atoms
    /\ UNCHANGED <<input, timestep, lx, ly, lz, atoms_data, total_energy,
                   results>>

\* Lines 90-107: read the atom count and the box of a wanted frame.
ReadHeader ==
    /\ pc = "header"
    /\ LET count == Line(Advance(pos, 1))
           xb == Line(Advance(pos, 3))
           yb == Line(Advance(pos, 4))
           zb == Line(Advance(pos, 5))
       IN  IF ~IntStripOk(count)
           THEN /\ pos' = Advance(pos, 2) /\ pc' = "raised"
                /\ UNCHANGED <<num_atoms, lx, ly, lz, atoms_data, total_energy>>
           ELSE IF ~(PairOk(xb) /\ PairOk(yb) /\ PairOk(zb))
           THEN /\ pos' = Advance(pos, IF ~PairOk(xb) THEN 4
                                       ELSE IF ~PairOk(yb) THEN 5 ELSE 6)
                /\ pc' = "raised"
                /\ num_atoms' = count[1].n
                /\ UNCHANGED <<lx, ly, lz, atoms_data, total_energy>>
           ELSE /\ pos' = Advance(pos, 7)
                /\ pc' = "atoms"
                /\ num_atoms' = count[1].n
                /\ lx' = FloatOf(xb[2]) - FloatOf(xb[1])
                /\ ly' = FloatOf(yb[2]) - FloatOf(yb[1])
                /\ lz' = FloatOf(zb[2]) - FloatOf(zb[1])
                /\ atoms_data' = <<>>
                /\ total_energy' = 0
    /\ UNCHANGED <<input, timestep, results>>

\* Lines 108-116: one iteration of the atom loop.
ReadAtom ==
    /\ pc = "atoms"
    /\ Len(atoms_data) < num_atoms
    /\ LET parts == Line(pos)
       IN  /\ pos' = Advance(pos, 1)
           /\ IF AtomOk(parts)
              THEN /\ total_energy' = AddEnergy(total_energy, parts)
                   /\ atoms_data' = AppendAtom(atoms_data, parts)
                   /\ pc' = "atoms"
              ELSE /\ pc' = "raised"
                   /\ UNCHANGED <<total_energy, atoms_data>>
    /\ UNCHANGED <<input, timestep, num_atoms, lx, ly, lz, results>>

\* Lines 119-134: the atom loop is over, render the frame and append it.
AppendFrame ==
    /\ pc = "atoms"
    /\ Len(atoms_data) >= num_atoms
    /\ results' = AppendBlock(results, frame_content)
    /\ pc' = "seek"
    /\ UNCHANGED <<input, pos, timestep, num_atoms, lx, ly, lz, atoms_data,
                   total_energy>>

Next ==
    \/ ReadLine
    \/ ReadTimestep
    \/ SkipFrame
    \/ ReadHeader
    \/ ReadAtom
    \/ AppendFrame

----------------------------------------------------------------------------
(* main and its pool.  A file's task yields the list of its blocks or raises; *)
(* with few files pool.map makes one task per file (chunksize 1).  A block is *)
(* named by its file and its place in the file's list.                        *)

BlocksOf(i) == [k \in 1..dump_files[i].n |-> <<i, k>>]
None == <<<<0, 0>>>>

Outcomes == {[ok |-> FALSE, n |-> 0]} \cup {[ok |-> TRUE, n |-> k] : k \in 0..MaxBlocks}

InitMain ==
    /\ frames = <<>>
    /\ cut = 0
    /\ stride = TIMESTEP_INTERVAL
    /\ max_timestep = MAX_TIMESTEP
    /\ Locals
    /\ dump_file = DefaultFile
    /\ dump_files \in SeqsUpTo(Outcomes, MaxFiles)
    /\ task = [i \in 1..Len(dump_files) |-> "queued"]
    /\ map_success = TRUE
    /\ map_value = [i \in 1..Len(dump_files) |-> None]
    /\ mpc = "start"
    /\ outfile = <<>>
    /\ total_frames = 0
    /\ next_frames = <<>>
    /\ finished = <<>>

scan == <<dump_file, frames, cut, stride, max_timestep, pos, pc, timestep, num_atoms,
          lx, ly, lz, atoms_data, total_energy, results, calls>>

\* Faulty variant of SetSlot: results are kept in order of arrival.
SetSlot_arrival(value, i, result) ==
    LET free == {j \in 1..Len(value) : value[j] = None}
        first == CHOOSE j \in free : \A h \in free : j <= h
    IN  [value EXCEPT ![first] = result]

\* MapResult._set on success: the slot of task i receives its result.
SetSlot(value, i, result) == [value EXCEPT ![i] = result]

RECURSIVE Flatten(_)
Flatten(lists) == IF lists = <<>> THEN <<>> ELSE Head(lists) \o Flatten(Tail(lists))

\* Lines 140-144: no file found.
NoFiles ==
    /\ mpc = "start"
    /\ dump_files = <<>>
    /\ mpc' = "returned"
    /\ UNCHANGED <<scan, dump_files, task, map_success, map_value, outfile,
                   total_frames>>

\* Lines 150-151: pool.map hands the files to the pool.
StartMap ==
    /\ mpc = "start"
    /\ dump_files # <<>>
    /\ mpc' = "map"
    /\ UNCHANGED <<scan, dump_files, task, map_success, map_value, outfile,
                   total_frames>>

\* A free worker takes the next task of the queue.
StartTask(i) ==
    /\ mpc = "map"
    /\ task[i] = "queued"
    /\ \A j \in 1..(i - 1) : task[j] # "queued"
    /\ Cardinality({j \in 1..Len(task) : task[j] = "running"}) < MaxWorkers
    /\ task' = [task EXCEPT ![i] = "running"]
    /\ UNCHANGED <<scan, dump_files, map_success, map_value, mpc, outfile,
                   total_frames>>

\* A worker ends process_dump_file on its file: the result or the exception
\* reaches the result list of pool.map.
FinishTask(i) ==
    /\ mpc = "map"
    /\ task[i] = "running"
    /\ task' = [task EXCEPT ![i] = "done"]
    /\ IF dump_files[i].ok /\ map_success
       THEN /\ map_value' = SetSlot(map_value, i, BlocksOf(i))
            /\ map_success' = map_success
       ELSE IF ~dump_files[i].ok /\ map_success
       THEN map_success' = FALSE /\ map_value' = <<>>
       ELSE UNCHANGED <<map_success, map_value>>
    /\ UNCHANGED <<scan, dump_files, mpc, outfile, total_frames>>

\* Line 151: every task is done, pool.map returns the list or raises.
MapReturn ==
    /\ mpc = "map"
    /\ \A i \in 1..Len(task) : task[i] = "done"
    /\ mpc' = IF map_success THEN "write" ELSE "raised"
    /\ UNCHANGED <<scan, dump_files, task, map_success, map_value, outfile,
                   total_frames>>

\* Lines 154-161: the blocks are written, file by file.
WriteOutput ==
    /\ mpc = "write"
    /\ outfile' = Flatten(map_value)
    /\ total_frames' = Len(Flatten(map_value))
    /\ mpc' = "returned"
    /\ UNCHANGED <<scan, dump_files, task, map_success, map_value>>

NextMain ==
    \/ NoFiles
    \/ StartMap
    \/ \E i \in 1..Len(dump_files) : StartTask(i)
    \/ \E i \in 1..Len(dump_files) : FinishTask(i)
    \/ MapReturn
    \/ WriteOutput

\* Files of small frames at every place below the input root.
CategoryFrames == {f \in SortedFrames(Timesteps) : f.n <= 1}
InitCategory ==
    /\ dump_file \in Paths
    /\ frames \in SeqsUpTo(CategoryFrames, MaxFrames)
    /\ cut = LineCount(frames)
    /\ stride = TIMESTEP_INTERVAL
    /\ max_timestep = MAX_TIMESTEP
    /\ Locals
    /\ NoBatch

\* Files whose frames share one box, written with integers or with reals.
Boxes ==
    {DefaultBox,
     <<<<IntLit(0), IntLit(10)>>, <<IntLit(0), IntLit(5)>>, <<IntLit(0), IntLit(2)>>>>,
     <<<<RealLit(0), RealLit(20)>>, <<RealLit(0), RealLit(10)>>, <<RealLit(0), RealLit(4)>>>>,
     <<<<IntLit(1), IntLit(3)>>, <<RealLit(0 - 1), RealLit(1)>>, <<RealLit(1), RealLit(8)>>>>}

InitLattice ==
    /\ \E b \in Boxes :
          frames \in SeqsUpTo({[f EXCEPT !.box = b] : f \in CategoryFrames}, MaxFrames)
    /\ cut = LineCount(frames)
    /\ stride = TIMESTEP_INTERVAL
    /\ max_timestep = MAX_TIMESTEP
    /\ Locals
    /\ dump_file = DefaultFile
    /\ NoBatch

----------------------------------------------------------------------------
(* One worker called on two files in turn.  The second file is the first with *)
(* other atom ids inside the frames that are not selected.                     *)

Reordered(fs) ==
    {g \in [1..Len(fs) -> WellFormedFrames(Timesteps)] :
        \A i \in 1..Len(fs) :
            /\ g[i].ts = fs[i].ts
            /\ g[i].n = fs[i].n
            /\ g[i].ts \in Range(0, MAX_TIMESTEP + 1, TIMESTEP_INTERVAL) =>
                   g[i].ids = fs[i].ids}

InitPair ==
    /\ frames \in SeqsUpTo(WellFormedFrames(Timesteps), MaxFrames)
    /\ cut = LineCount(frames)
    /\ stride = TIMESTEP_INTERVAL
    /\ max_timestep = MAX_TIMESTEP
    /\ Locals
    /\ dump_file = DefaultFile
    /\ dump_files = <<>>
    /\ task = <<>>
    /\ map_success = TRUE
    /\ map_value = <<>>
    /\ mpc = "idle"
    /\ outfile = <<>>
    /\ total_frames = 0
    /\ \E g \in Reordered(frames) : next_frames = <<g>>
    /\ finished = <<>>

\* Line 151: the call has ended and the worker is called on its next file.
NextCall ==
    /\ pc \in {"returned", "raised"}
    /\ next_frames # <<>>
    /\ finished' = Append(finished, [pc |-> pc, results |-> results])
    /\ frames' = Head(next_frames)
    /\ cut' = LineCount(Head(next_frames))
    /\ next_frames' = Tail(next_frames)
    /\ pos' = 0
    /\ pc' = "seek"
    /\ timestep' = 0
    /\ num_atoms' = 0
    /\ lx' = 0 /\ ly' = 0 /\ lz' = 0
    /\ atoms_data' = <<>>
    /\ total_energy' = 0
    /\ results' = <<>>
    /\ UNCHANGED <<dump_file, stride, max_timestep, batch>>

NextPair ==
    \/ Next
    \/ NextCall

Spec == Init /\ [][Next]_vars
SpecPair == InitPair /\ [][NextPair]_vars

\* A call, once started, keeps running until it returns or raises.
SpecMalFair == InitMal /\ [][Next]_vars /\ WF_vars(Next)
SpecLattice == InitLattice /\ [][Next]_vars
SpecCategory == InitCategory /\ [][Next]_vars
SpecMain == InitMain /\ [][NextMain]_vars
SpecPolicy == InitPolicy /\ [][Next]_vars
SpecMal == InitMal /\ [][Next]_vars

----------------------------------------------------------------------------
(* What the properties are stated in: the sampling rule of the specification *)
(* and the frames as they were written into the file.                        *)

Selected(t) == 0 <= t /\ t <= max_timestep /\ t % stride = 0

SelectedFrames == SelectSeq(frames, LAMBDA f : Selected(f.ts))

SpeciesOf(id) == IF id = 1 THEN "C" ELSE "X"

\* The output line expected for the atom with a given id.
ExpectedAtomLine(id) ==
    <<Word(SpeciesOf(id)), Fixed8(2 * id), Fixed8(1), Fixed8(0), Fixed8(0 - id),
      Fixed8(2), Fixed8(3)>>

RECURSIVE EnergySum(_)
EnergySum(ids) == IF ids = <<>> THEN 0 ELSE EnergyOf(Head(ids)) + EnergySum(Tail(ids))

\* What a block says of its frame, and the same read off a well-formed frame.
BlockKey(b) == [ts |-> b.category.timestep, atoms |-> b.atoms]
FrameKey(f) ==
    [ts |-> IntLit(f.ts), atoms |-> [j \in 1..Len(f.ids) |-> ExpectedAtomLine(f.ids[j])]]

\* Number of lines before frame i, and the line count of frame i as written.
RECURSIVE FrameStart(_)
FrameStart(i) == IF i = 1 THEN 0 ELSE FrameStart(i - 1) + FrameLen(frames[i - 1])
FrameEnd(i) == FrameStart(i) + FrameLen(frames[i])

\* Number of atom lines of frame i that the file holds.
AtomLinesPresent(i) == Max(0, Min(cut, FrameEnd(i)) - (FrameStart(i) + 9))

RECURSIVE IsSubSeq(_, _)
IsSubSeq(a, b) ==
    IF a = <<>> THEN TRUE
    ELSE IF b = <<>> THEN FALSE
    ELSE IF Head(a) = Head(b) THEN IsSubSeq(Tail(a), Tail(b))
    ELSE IsSubSeq(a, Tail(b))

----------------------------------------------------------------------------
(* Claims *)

\* C1: on a file of well-formed frames, process_dump_file returns exactly one
\* block per frame with a selected timestep: as many blocks as selected frames,
\* the i-th block carrying the timestep and the atoms of the i-th selected frame.
C1_OneBlockPerSelectedFrame ==
    pc = "returned" =>
        [i \in 1..Len(results) |-> BlockKey(results[i])]
            = [i \in 1..Len(SelectedFrames) |-> FrameKey(SelectedFrames[i])]

\* C2: skipping a frame consumes the lines a full parse of it would: from the
\* line after the timestep, the 7 remaining header lines and as many atom lines
\* as the atom-count line declares.
C2_SkipConsumesWholeFrame ==
    [][(pc = "skip" /\ pc' = "seek") => pos' = pos + 7 + Line(pos + 1)[1].n]_vars

\* C3: for every stride, bound and timestep read from a frame, the frame is
\* fully parsed iff 0 <= t <= max_timestep and t mod stride = 0, and skipped
\* otherwise.
C3_PathFollowsPolicy ==
    pc \in {"header", "skip"} =>
        /\ Line(pos - 1) = <<IntLit(timestep)>>
        /\ pc = "header" <=> Selected(timestep)

C3_Witness ==
    /\ pc = "skip"
    /\ timestep > max_timestep
    /\ timestep % stride = 0
    /\ stride > 1
    /\ max_timestep > 0

C5_MiscountFails ==
    (\E i \in 1..Len(frames) :
        Selected(frames[i].ts) /\ frames[i].n # Len(frames[i].ids))
    => pc # "returned"

\* C6: a selected frame that declares more atoms than the lines present before
\* the stream ends makes process_dump_file raise, and no block ever holds fewer
\* atom lines than its count.
C6_ShortFrameRaises ==
    /\ (\E i \in 1..Len(frames) :
          /\ Selected(frames[i].ts)
          /\ FrameStart(i) + 4 <= cut
          /\ frames[i].n > AtomLinesPresent(i))
       => pc # "returned"
    /\ \A j \in 1..Len(results) : Len(results[j].atoms) >= results[j].count[1].n

\* C7: when the stream ends inside a frame, after its marker and before its last
\* atom line, process_dump_file does not return normally.
C7_TruncationSignalled ==
    (\E i \in 1..Len(frames) : FrameStart(i) < cut /\ cut < FrameEnd(i))
    => pc # "returned"

\* C8: the blocks are in the order of their source frames, never re-sorted by
\* timestep: at any time they are, in order, blocks of selected frames of the
\* file taken in file order.
C8_SourceOrderKept ==
    IsSubSeq([i \in 1..Len(results) |-> BlockKey(results[i])],
             [i \in 1..Len(SelectedFrames) |-> FrameKey(SelectedFrames[i])])

C8_Witness ==
    /\ pc = "returned"
    /\ Len(results) = 2
    /\ results[1].category.timestep = IntLit(100)
    /\ results[2].category.timestep = IntLit(0)

\* C9: every block is a count line equal to the declared atom count N of a
\* selected frame, a metadata line, and exactly N atom lines, the k-th derived
\* from the k-th atom line of that frame.
C9_BlockShape ==
    \A j \in 1..Len(results) :
        \E i \in 1..Len(frames) :
            /\ Selected(frames[i].ts)
            /\ results[j].category.timestep = IntLit(frames[i].ts)
            /\ results[j].count = <<IntLit(frames[i].n)>>
            /\ Len(results[j].atoms) = frames[i].n
            /\ \A k \in 1..frames[i].n :
                  results[j].atoms[k] = ExpectedAtomLine(frames[i].ids[k])

C9_Witness ==
    /\ Len(results) >= 1
    /\ results[1].count = <<IntLit(2)>>
    /\ results[1].atoms = <<ExpectedAtomLine(2), ExpectedAtomLine(1)>>

\* C10: the energy of a block is the sum of the per-atom energies (field 11) of
\* the atom lines of its own frame, accumulated from zero; no other frame of the
\* file contributes.
C10_EnergyOfOwnFrame ==
    \A j \in 1..Len(results) :
        \E i \in 1..Len(frames) :
            /\ BlockKey(results[j]) = FrameKey(frames[i])
            /\ results[j].energy = RealLit(EnergySum(frames[i].ids))

C10_Witness ==
    /\ pc = "returned"
    /\ Len(results) = 2
    /\ results[1].energy = RealLit(EnergySum(<<2, 1>>))
    /\ results[2].energy = RealLit(EnergySum(<<1>>))

\* C11: reading an atom line of a selected frame never fails on its type token:
\* the atom is kept, labelled with the species the type map gives its token, or
\* with "X" when the token is no key of the map, and the block shows that label.
ClaimedLabel(tok) ==
    IF tok = IntLit(1) THEN "C"
    ELSE IF tok = IntLit(2) THEN "Si"
    ELSE IF tok = IntLit(3) THEN "O"
    ELSE "X"

C11_TypeMapTotal ==
    [][/\ (pc = "atoms" /\ Len(atoms_data) < num_atoms) =>
            /\ pc' = "atoms"
            /\ Len(atoms_data') = Len(atoms_data) + 1
            /\ atoms_data'[Len(atoms_data')][1] = ClaimedLabel(Line(pos)[2])
       /\ (results' # results) =>
            \A k \in 1..Len(atoms_data) :
                results'[Len(results')].atoms[k][1] = Word(atoms_data[k][1])
      ]_vars

C11_Witness ==
    /\ Len(results) = 1
    /\ Len(results[1].atoms) = 2
    /\ results[1].atoms[1][1] = Word("X")
    /\ results[1].atoms[2][1] = Word("C")

RECURSIVE AllBlocks(_)
AllBlocks(i) == IF i = 0 THEN <<>> ELSE AllBlocks(i - 1) \o BlocksOf(i)

RECURSIVE GoodBlocks(_)
GoodBlocks(i) ==
    IF i = 0 THEN <<>>
    ELSE GoodBlocks(i - 1) \o (IF dump_files[i].ok THEN BlocksOf(i) ELSE <<>>)

\* C12: when every file is processed without error, the output is the
\* concatenation of the per-file block lists in the order of the file list,
\* whatever the order in which the workers finish, and the number of blocks
\* written is the sum of the lengths of the per-file lists.
C12_OutputInFileOrder ==
    (mpc = "returned" /\ \A i \in 1..Len(dump_files) : dump_files[i].ok) =>
        /\ outfile = AllBlocks(Len(dump_files))
        /\ total_frames = Len(AllBlocks(Len(dump_files)))

C12_Witness ==
    /\ mpc = "returned"
    /\ Len(dump_files) = MaxFiles
    /\ \A i \in 1..Len(dump_files) : dump_files[i].ok /\ dump_files[i].n = MaxBlocks
    /\ Len(outfile) = MaxFiles * MaxBlocks

\* C13: a failure on one file is isolated: when main ends, the blocks of every
\* file that parsed successfully are in the output.
C13_FailureIsolated ==
    mpc \in {"returned", "raised"} => outfile = GoodBlocks(Len(dump_files))

\* The category as the claim words it: relative directory, '/', base name
\* without extension, '-', timestep; no prefix at the input root.
StemOf(file) == SubSeq(file.name, 1, Len(file.name) - Len(Extension))
RelDirOf(file) == SubSeq(file.dir, Len(INPUT_DIR) + 1, Len(file.dir))
ClaimedCategory(file, ts) ==
    (IF RelDirOf(file) = <<>> THEN <<>> ELSE JoinSlash(RelDirOf(file)) \o <<"/">>)
        \o StemOf(file) \o <<"-">> \o Digits(ts)

\* C14: the category of a block is the relative directory, '/', the base name
\* without extension, '-' and the timestep, the prefix being omitted at the
\* input root; blocks of one file with different timesteps have different
\* categories, and no frame of a file in another relative directory has the
\* category of a block.
C14_CategoryForm ==
    /\ \A i \in 1..Len(results) :
          /\ results[i].category.text =
                 ClaimedCategory(dump_file, results[i].category.timestep.n)
          /\ \A other \in Paths : \A t \in Timesteps :
                 RelDirOf(other) # RelDirOf(dump_file) =>
                     CategoryOf(other, t) # results[i].category.text
    /\ \A i, j \in 1..Len(results) :
          results[i].category.timestep # results[j].category.timestep =>
              results[i].category.text # results[j].category.text

C14_Witness ==
    /\ pc = "returned"
    /\ Len(results) = 2
    /\ results[1].category.text = <<"a", "/", "r", "/", "r", "-", "7", "-", "0">>
    /\ results[2].category.text =
           <<"a", "/", "r", "/", "r", "-", "7", "-", "1", "0", "0">>

\* The box of the claim's example: bounds (0,10)(0,5)(0,2).
ExampleBox ==
    <<<<IntLit(0), IntLit(10)>>, <<IntLit(0), IntLit(5)>>, <<IntLit(0), IntLit(2)>>>>

\* hi - lo of one bounds line, in halves.
EdgeLength(pair) ==
    (IF pair[2].k = "int" THEN 2 * pair[2].n ELSE pair[2].n)
        - (IF pair[1].k = "int" THEN 2 * pair[1].n ELSE pair[1].n)

\* C15, as stated: the lattice is the diagonal matrix of the edge lengths, and
\* for bounds (0,10)(0,5)(0,2) its values are exactly
\* 10 0.0 0.0 0.0 5 0.0 0.0 0.0 2.
C15_LatticeAsWritten ==
    \A i \in 1..Len(results) :
        frames[1].box = ExampleBox =>
            results[i].Lattice =
                <<IntLit(10), RealLit(0), RealLit(0), RealLit(0), IntLit(5),
                  RealLit(0), RealLit(0), RealLit(0), IntLit(2)>>

\* C15, amended: the lattice is the row-major diagonal matrix of the edge
\* lengths xhi-xlo, yhi-ylo, zhi-zlo, every value written as a float; for
\* bounds (0,10)(0,5)(0,2) its values are exactly
\* 10.0 0.0 0.0 0.0 5.0 0.0 0.0 0.0 2.0.
C15_LatticeDiagonal ==
    \A i \in 1..Len(results) :
        /\ results[i].Lattice =
               <<RealLit(EdgeLength(frames[1].box[1])), RealLit(0), RealLit(0),
                 RealLit(0), RealLit(EdgeLength(frames[1].box[2])), RealLit(0),
                 RealLit(0), RealLit(0), RealLit(EdgeLength(frames[1].box[3]))>>
        /\ frames[1].box = ExampleBox =>
               results[i].Lattice =
                   <<RealLit(20), RealLit(0), RealLit(0), RealLit(0), RealLit(10),
                     RealLit(0), RealLit(0), RealLit(0), RealLit(4)>>

C15_Witness ==
    /\ pc = "returned"
    /\ Len(frames) >= 1
    /\ frames[1].box = ExampleBox
    /\ Len(results) = 1
    /\ results[1].Lattice[1] = RealLit(20)
    /\ results[1].Lattice[5] = RealLit(10)
    /\ results[1].Lattice[9] = RealLit(4)

\* C16: two well-formed files that differ only in the atom ids inside frames
\* that are not selected give the same list of blocks.
C16_SkippedAtomsIrrelevant ==
    (/\ Len(finished) = 1
     /\ finished[1].pc = "returned"
     /\ pc = "returned") => results = finished[1].results

\* C17: on a file that is a concatenation of well-formed frames, with
\* zero-atom frames and last frames among them, process_dump_file never raises.
C17_WellFormedNeverRaises == pc # "raised"

\* C18: on every finite file, damaged or not, process_dump_file ends by
\* returning or raising; the position never moves backwards, and every step
\* of the scan consumes at least one line, ends the call or ends a frame.
C18_Terminates ==
    /\ <>(pc \in {"returned", "raised"})
    /\ [][/\ pos' >= pos
          /\ \/ pos' > pos
             \/ pc' \in {"returned", "raised"}
             \/ pc = "atoms" /\ pc' = "seek" /\ Len(results') = Len(results) + 1
         ]_vars

C18_Witness ==
    /\ pc = "raised"
    /\ cut < LineCount(frames)
    /\ pos = cut
    /\ Len(results) = 1

====
